---------------------------- MODULE Spec2Model ----------------------------
(***************************************************************************)
(* Row-level-security model of the chat-app database                       *)
(* (supabase/reset_and_rebuild_fixed.sql, supabase/migrations/*.sql).      *)
(*                                                                         *)
(* The state is the content of the tables.  A client request is one        *)
(* action: the caller (auth.uid()) submits a statement, the policies of    *)
(* the table for that command are evaluated on the row, then the foreign   *)
(* keys and UNIQUE constraints; a statement that is refused leaves the     *)
(* tables as they were.  Permissive policies of one table and command are  *)
(* OR-ed; a table with row level security enabled and no policy for a      *)
(* command refuses that command for every row.                             *)
(*                                                                         *)
(* A policy's subquery reads only rows with user_id = auth.uid() or rooms  *)
(* with is_private = false; the caller's own SELECT policies admit exactly *)
(* those rows, so the subquery is evaluated on the table content.          *)
(***************************************************************************)
EXTENDS Integers, FiniteSets, Sequences, Bags, TLC

\* ------------------------------------------------------------------ bounds
MaxRooms == 1
MaxConversations == 2
MaxDirectMessages == 2
MaxTime == 1
MaxLen == 3
MaxRuns == 5
MaxMessages == 2
MaxClock == 1
MaxInput == 2
MaxList == 2

\* Three users: the policies compare auth.uid() with the user column of one
\* row, so a row's owner, a second party to it and an outsider are the roles.
Users == {1, 2, 3}
\* Two sessions: the requests that can be in progress at the same time.
Sessions == {1, 2}
RoomIds == 1..MaxRooms
MessageIds == {1}
ConversationIds == 1..MaxConversations
NULL == 0
Emails == {1, 2}

VARIABLES
  rooms,              \* public.rooms: [id, created_by, is_private]
  room_members,       \* public.room_members: [room_id, user_id]
  messages,           \* public.messages: [id, user_id, room_id]
  message_reads,      \* public.message_reads: (message_id, user_id) -> number of rows
  typing_indicators,  \* public.typing_indicators: [room_id, user_id, is_typing]
  message_log,        \* history: per accepted INSERT into messages, who issued it and what held then
  read_log,           \* history: per accepted INSERT into message_reads, who issued it and what held then
  direct_conversations,  \* public.direct_conversations: [id, updated_at] (created_at is read by nothing)
  direct_participants,   \* public.direct_participants: [conversation_id, user_id]
  direct_messages,       \* public.direct_messages: a bag of [conversation_id, sender_id, created_at]
  now,                   \* the database clock
  txn,                   \* per session, the request (transaction) in progress
  conversation_log,      \* history: per conversation, the arguments of the call that created it
  returned,              \* per session, the arguments and the result of its last completed find_or_create_conversation
  dm_log                 \* history: per accepted INSERT into direct_messages, who issued it and what held then
                         \* (the rows' id column is read by no policy, trigger or function: equal rows differ in id only)

roomVars == <<rooms, room_members, messages, message_reads, typing_indicators,
              message_log, read_log>>

dmVars == <<direct_conversations, direct_participants, direct_messages, now, txn,
            conversation_log, returned, dm_log>>

VARIABLES
  auth_users,         \* auth.users: [id, email]
  profiles            \* public.profiles: [id, username]

authVars == <<auth_users, profiles>>

VARIABLES
  active,             \* the query rewriter's list of relations whose policies are being expanded
  recursion           \* whether the last statement raised "infinite recursion detected in policy"

rewriteVars == <<active, recursion>>

VARIABLES
  error,              \* utils/error-handler.ts: the value passed to handleDatabaseError
  returnValue         \* what the call returned, Pending before the call

handlerVars == <<error, returnValue>>

VARIABLES
  pg_tables,          \* the tables of schema public that exist
  pg_policies,        \* pg_policies: [tablename, policyname]
  running,            \* the migration file being run and the position in it, or Idle
  applied,            \* history: the migration files run so far, in order
  failures            \* history: the statements that raised an error, [run, file, pc]

catalogVars == <<pg_tables, pg_policies, running, applied, failures>>

VARIABLES
  time,               \* ChatInterface: the database clock
  inserting,          \* INSERTs into messages of the current room not yet committed
  room_messages,      \* the committed messages rows of the current room, in commit order
  currentRoom,        \* useState<Room | null>
  request,            \* the query of fetchMessages: its state and its data
  channel,            \* the realtime channel 'public:messages'
  payloads,           \* INSERT events on their way to the callback
  ci_messages         \* useState<Message[]> of ChatInterface

chatVars == <<time, inserting, room_messages, currentRoom, request, channel,
              payloads, ci_messages>>

VARIABLES
  newContactId,               \* DirectMessage: useState('')
  conversations,              \* useState<Conversation[]>([]): the ids, first to last
  selectedConversation,       \* useState<Conversation | null>(null)
  showNewConversationDialog,  \* useState(false)
  dm_error,                   \* useState<string | null>(null) of the component
  call,                       \* the running startConversation: its position and its newContactId
  rpc_log                     \* history: the calls of find_or_create_conversation made by
                              \* the latest startConversation

startVars == <<newContactId, conversations, selectedConversation,
               showNewConversationDialog, dm_error, call, rpc_log>>

VARIABLES
  session,            \* the user of the browser's session cookie, or NULL
  page                \* per browser window: what the last request of "/" produced

pageVars == <<session, page>>

\* The variables outside the room and direct-messaging tables.
otherVars == <<authVars, rewriteVars, handlerVars, catalogVars, chatVars, startVars,
               pageVars>>

\* What the statements on one part leave alone.
notAuthVars == <<roomVars, dmVars, rewriteVars, handlerVars, catalogVars, chatVars, startVars, pageVars>>
notRewriteVars == <<roomVars, dmVars, authVars, handlerVars, catalogVars, chatVars, startVars, pageVars>>
notHandlerVars == <<roomVars, dmVars, authVars, rewriteVars, catalogVars, chatVars, startVars, pageVars>>
notCatalogVars == <<roomVars, dmVars, authVars, rewriteVars, handlerVars, chatVars, startVars, pageVars>>
notChatVars == <<roomVars, dmVars, authVars, rewriteVars, handlerVars, catalogVars, startVars, pageVars>>
notStartVars == <<roomVars, dmVars, authVars, rewriteVars, handlerVars, catalogVars, chatVars, pageVars>>
notPageVars == <<roomVars, dmVars, authVars, rewriteVars, handlerVars, catalogVars, chatVars,
                startVars>>

vars == <<roomVars, dmVars, otherVars>>

\* ------------------------------------------------------------ table helpers
\* gen_random_uuid(): a key no row of the table holds; keys are opaque, the
\* least unused one stands for the fresh key.
FreshId(ids, used) == CHOOSE i \in ids \ used : \A j \in ids \ used : i <= j

RoomExists(room_id) == \E r \in rooms : r.id = room_id

IsMember(uid, room_id) ==
  \E rm \in room_members : rm.room_id = room_id /\ rm.user_id = uid

IsPublic(room_id) == \E r \in rooms : r.id = room_id /\ r.is_private = FALSE

MessageRow(message_id) == CHOOSE m \in messages : m.id = message_id

\* ------------------------------------------------------------------- rooms
\* CREATE POLICY "Public rooms are viewable by everyone" ... USING (is_private = false)
PublicRoomsAreViewableByEveryone(uid, r) == r.is_private = FALSE

\* CREATE POLICY "Users can view private rooms they are members of"
UsersCanViewPrivateRoomsTheyAreMembersOf(uid, r) ==
  \E rm \in room_members : rm.room_id = r.id /\ rm.user_id = uid

\* migrations/02: "Private rooms are viewable only by members"
PrivateRoomsAreViewableOnlyByMembers(uid, r) ==
  \/ r.is_private = FALSE
  \/ r.id \in {rm.room_id : rm \in {x \in room_members : x.user_id = uid}}

RoomsSelect(uid, r) ==
  \/ PublicRoomsAreViewableByEveryone(uid, r)
  \/ UsersCanViewPrivateRoomsTheyAreMembersOf(uid, r)

RoomsSelectMigrations(uid, r) ==
  \/ PublicRoomsAreViewableByEveryone(uid, r)
  \/ PrivateRoomsAreViewableOnlyByMembers(uid, r)

\* CREATE POLICY "Users can insert rooms" ... WITH CHECK (auth.uid() = created_by)
UsersCanInsertRooms(uid, r) == uid = r.created_by

\* The UPDATE policy passing every row.
UsersCanUpdateTheirOwnRooms_Anyone(uid, r) == TRUE

\* CREATE POLICY "Users can update their own rooms" ... USING (created_by = auth.uid())
\* No WITH CHECK is given, so the USING expression also checks the new row.
UsersCanUpdateTheirOwnRooms(uid, r) == r.created_by = uid

\* The policies of rooms for INSERT: the rebuilt schema has "Users can insert
\* rooms"; migrations 01 to 04 create no INSERT policy on rooms.
RoomsInsert(uid, r) == UsersCanInsertRooms(uid, r)
RoomsInsertMigrations(uid, r) == FALSE

InsertRoom(uid, created_by, is_private) ==
  /\ Cardinality(rooms) < MaxRooms
  /\ LET r == [id |-> FreshId(RoomIds, {x.id : x \in rooms}),
               created_by |-> created_by, is_private |-> is_private]
     IN  rooms' = IF UsersCanInsertRooms(uid, r) THEN rooms \cup {r} ELSE rooms
  /\ UNCHANGED <<room_members, messages, message_reads, typing_indicators,
                 message_log, read_log, dmVars, otherVars>>

UpdateRoom(uid, r, created_by, is_private) ==
  /\ r \in rooms
  /\ LET new == [id |-> r.id, created_by |-> created_by, is_private |-> is_private]
     IN  rooms' = IF UsersCanUpdateTheirOwnRooms(uid, r) /\ UsersCanUpdateTheirOwnRooms(uid, new)
                  THEN (rooms \ {r}) \cup {new}
                  ELSE rooms
  /\ UNCHANGED <<room_members, messages, message_reads, typing_indicators,
                 message_log, read_log, dmVars, otherVars>>

\* ------------------------------------------------------------ room_members
\* CREATE POLICY "Users can join rooms" ... WITH CHECK (user_id = auth.uid())
UsersCanJoinRooms(uid, rm) == rm.user_id = uid

\* CREATE POLICY "Users can leave rooms" ... USING (user_id = auth.uid())
UsersCanLeaveRooms(uid, rm) == rm.user_id = uid

\* The policies of room_members for DELETE: migrations 01 to 04 create none.
RoomMembersDelete(uid, rm) == UsersCanLeaveRooms(uid, rm)
RoomMembersDeleteMigrations(uid, rm) == FALSE

InsertRoomMember(uid, user_id, room_id) ==
  /\ LET rm == [room_id |-> room_id, user_id |-> user_id]
     IN  room_members' =
           IF /\ UsersCanJoinRooms(uid, rm)
              /\ RoomExists(room_id)          \* REFERENCES public.rooms(id)
              /\ rm \notin room_members       \* UNIQUE(room_id, user_id)
           THEN room_members \cup {rm}
           ELSE room_members
  /\ UNCHANGED <<rooms, messages, message_reads, typing_indicators,
                 message_log, read_log, dmVars, otherVars>>

DeleteRoomMember(uid, rm) ==
  /\ rm \in room_members
  /\ room_members' = IF UsersCanLeaveRooms(uid, rm) THEN room_members \ {rm}
                     ELSE room_members
  /\ UNCHANGED <<rooms, messages, message_reads, typing_indicators,
                 message_log, read_log, dmVars, otherVars>>

\* ---------------------------------------------------------------- messages
\* The public-room policy without the test of is_private.
UsersCanViewMessagesInPublicRooms_AnyRoom(uid, m) ==
  \E r \in rooms : r.id = m.room_id

\* CREATE POLICY "Users can view messages in public rooms"
UsersCanViewMessagesInPublicRooms(uid, m) ==
  \E r \in rooms : r.id = m.room_id /\ r.is_private = FALSE

\* CREATE POLICY "Users can view messages in their private rooms"
UsersCanViewMessagesInTheirPrivateRooms(uid, m) ==
  \E rm \in room_members : rm.room_id = m.room_id /\ rm.user_id = uid

\* migrations/02: "Users can view messages in their rooms"
UsersCanViewMessagesInTheirRooms(uid, m) ==
  m.room_id \in {r.id : r \in {x \in rooms : x.is_private = FALSE}}
                \cup {rm.room_id : rm \in {x \in room_members : x.user_id = uid}}

MessagesSelect(uid, m) ==
  \/ UsersCanViewMessagesInPublicRooms(uid, m)
  \/ UsersCanViewMessagesInTheirPrivateRooms(uid, m)

MessagesSelectMigrations(uid, m) == UsersCanViewMessagesInTheirRooms(uid, m)

\* The INSERT policy without the test of the room.
UsersCanSendMessagesToTheirRooms_AnyRoom(uid, m) == uid = m.user_id

\* CREATE POLICY "Users can send messages to their rooms"
UsersCanSendMessagesToTheirRooms(uid, m) ==
  /\ uid = m.user_id
  /\ \/ \E r \in rooms : r.id = m.room_id /\ r.is_private = FALSE
     \/ \E rm \in room_members : rm.room_id = m.room_id /\ rm.user_id = uid

\* migrations/02: "Users can insert messages in their rooms"
UsersCanInsertMessagesInTheirRooms(uid, m) ==
  /\ uid = m.user_id
  /\ m.room_id \in {r.id : r \in {x \in rooms : x.is_private = FALSE}}
                   \cup {rm.room_id : rm \in {x \in room_members : x.user_id = uid}}

\* room_id is nullable; a NULL room_id matches no room and no membership.
InsertMessage(uid, user_id, room_id) ==
  /\ Cardinality(messages) < Cardinality(MessageIds)
  /\ LET m == [id |-> FreshId(MessageIds, {x.id : x \in messages}),
               user_id |-> user_id, room_id |-> room_id, content |-> "sent"]
         accepted == /\ UsersCanSendMessagesToTheirRooms(uid, m)
                     /\ (room_id = NULL \/ RoomExists(room_id))  \* REFERENCES public.rooms(id)
     IN  /\ messages' = IF accepted THEN messages \cup {m} ELSE messages
         /\ message_log' =
              IF accepted
              THEN message_log \cup {[id |-> m.id, caller |-> uid,
                                      was_private |-> ~IsPublic(room_id),
                                      was_member |-> IsMember(uid, room_id)]}
              ELSE message_log
  /\ UNCHANGED <<rooms, room_members, message_reads, typing_indicators, read_log, dmVars, otherVars>>

\* The text of a message: as it was sent, or another text.
Contents == {"sent", "edited"}

\* An UPDATE policy passing the rows of the caller.
MessagesUpdate_OwnRows(uid, m) == m.user_id = uid

\* The policies of messages for UPDATE and for DELETE: none is created, and
\* with row level security enabled a command without a policy passes no row.
MessagesUpdate(uid, m) == FALSE
MessagesDelete(uid, m) == FALSE

\* UPDATE public.messages SET content = ..., user_id = ..., room_id = ... WHERE id = m.id
UpdateMessage(uid, m, user_id, room_id, content) ==
  /\ m \in messages
  /\ LET new == [id |-> m.id, user_id |-> user_id, room_id |-> room_id, content |-> content]
     IN  messages' = IF /\ MessagesUpdate(uid, m) /\ MessagesUpdate(uid, new)
                        /\ (room_id = NULL \/ RoomExists(room_id))  \* REFERENCES public.rooms(id)
                     THEN (messages \ {m}) \cup {new}
                     ELSE messages
  /\ UNCHANGED <<rooms, room_members, message_reads, typing_indicators, message_log,
                 read_log, dmVars, otherVars>>

\* DELETE FROM public.messages WHERE id = m.id
DeleteMessage(uid, m) ==
  /\ m \in messages
  /\ messages' = IF MessagesDelete(uid, m) THEN messages \ {m} ELSE messages
  /\ UNCHANGED <<rooms, room_members, message_reads, typing_indicators, message_log,
                 read_log, dmVars, otherVars>>

\* ----------------------------------------------------------- message_reads
\* The table is a bag of (message_id, user_id) rows: the other columns (id,
\* read_at) are read by no policy.  UNIQUE(message_id, user_id) is enforced
\* by the INSERT, not by the representation.
ReadRows(message_id, user_id) == message_reads[<<message_id, user_id>>]

ReadExists(mr) == ReadRows(mr.message_id, mr.user_id) > 0

\* The public-room policy without the test of is_private.
UsersCanViewReadReceiptsForPublicRoomMessages_AnyRoom(uid, mr) ==
  \E m \in messages, r \in rooms : r.id = m.room_id /\ m.id = mr.message_id

\* CREATE POLICY "Users can view read receipts for public room messages"
\*   messages JOIN rooms ON rooms.id = messages.room_id
UsersCanViewReadReceiptsForPublicRoomMessages(uid, mr) ==
  \E m \in messages, r \in rooms :
     /\ r.id = m.room_id
     /\ m.id = mr.message_id
     /\ r.is_private = FALSE

\* CREATE POLICY "Users can view read receipts for their private room messages"
\*   messages JOIN room_members ON room_members.room_id = messages.room_id
UsersCanViewReadReceiptsForTheirPrivateRoomMessages(uid, mr) ==
  \E m \in messages, rm \in room_members :
     /\ rm.room_id = m.room_id
     /\ m.id = mr.message_id
     /\ rm.user_id = uid

MessageReadsSelect(uid, mr) ==
  \/ UsersCanViewReadReceiptsForPublicRoomMessages(uid, mr)
  \/ UsersCanViewReadReceiptsForTheirPrivateRoomMessages(uid, mr)

\* migrations/03: "Message reads are viewable by room members"
MessageReadsAreViewableByRoomMembers(uid, mr) ==
  mr.message_id \in
    {m.id : m \in {x \in messages :
                     x.room_id \in {rm.room_id : rm \in {y \in room_members : y.user_id = uid}}}}

MessageReadsSelectMigrations(uid, mr) == MessageReadsAreViewableByRoomMembers(uid, mr)

\* LEFT JOIN: the rows of the right table that match, or one all-NULL row.
NullRow == [null |-> TRUE]
LeftJoin(matching) == IF matching = {} THEN {NullRow} ELSE matching

\* The INSERT policy without auth.uid() = user_id.
UsersCanInsertTheirOwnMessageReads_AnyUser(uid, mr) ==
  \E m \in messages :
     \E rm \in LeftJoin({x \in room_members : x.room_id = m.room_id}),
        r \in LeftJoin({x \in rooms : x.id = m.room_id}) :
          /\ m.id = mr.message_id
          /\ \/ (r # NullRow /\ r.is_private = FALSE)
             \/ (rm # NullRow /\ rm.user_id = uid)

\* CREATE POLICY "Users can insert their own message reads"
\*   messages LEFT JOIN room_members ... LEFT JOIN rooms ...
\*   WHERE messages.id = message_reads.message_id
\*   AND (rooms.is_private = false OR room_members.user_id = auth.uid())
UsersCanInsertTheirOwnMessageReads(uid, mr) ==
  /\ uid = mr.user_id
  /\ \E m \in messages :
       \E rm \in LeftJoin({x \in room_members : x.room_id = m.room_id}),
          r \in LeftJoin({x \in rooms : x.id = m.room_id}) :
            /\ m.id = mr.message_id
            /\ \/ (r # NullRow /\ r.is_private = FALSE)
               \/ (rm # NullRow /\ rm.user_id = uid)

\* migrations/03: "Users can insert their own message reads"
UsersCanInsertTheirOwnMessageReadsMigrations(uid, mr) ==
  /\ uid = mr.user_id
  /\ mr.message_id \in
       {m.id : m \in {x \in messages :
                        x.room_id \in {rm.room_id : rm \in {y \in room_members : y.user_id = uid}}}}

InsertMessageRead(uid, user_id, message_id) ==
  /\ LET mr == [message_id |-> message_id, user_id |-> user_id]
         accepted == /\ UsersCanInsertTheirOwnMessageReads(uid, mr)
                     /\ \E m \in messages : m.id = message_id  \* REFERENCES public.messages(id)
                     /\ ~ReadExists(mr)                        \* UNIQUE(message_id, user_id)
     IN  /\ message_reads' =
              IF accepted
              THEN [message_reads EXCEPT ![<<message_id, user_id>>] = @ + 1]
              ELSE message_reads
         /\ read_log' =
              IF accepted
              THEN read_log \cup {[message_id |-> message_id, user_id |-> user_id,
                                   caller |-> uid,
                                   could_view |-> MessagesSelect(uid, MessageRow(message_id))]}
              ELSE read_log
  /\ UNCHANGED <<rooms, room_members, messages, typing_indicators, message_log, dmVars, otherVars>>

\* ------------------------------------------------------- typing_indicators
\* CREATE POLICY "Users can see typing in public rooms"
UsersCanSeeTypingInPublicRooms(uid, t) ==
  \E r \in rooms : r.id = t.room_id /\ r.is_private = FALSE

\* CREATE POLICY "Users can see typing in their private rooms"
UsersCanSeeTypingInTheirPrivateRooms(uid, t) ==
  \E rm \in room_members : rm.room_id = t.room_id /\ rm.user_id = uid

\* CREATE POLICY "Users can update their typing status" ... FOR INSERT
UsersCanUpdateTheirTypingStatus(uid, t) ==
  /\ uid = t.user_id
  /\ \/ \E r \in rooms : r.id = t.room_id /\ r.is_private = FALSE
     \/ \E rm \in room_members : rm.room_id = t.room_id /\ rm.user_id = uid

\* migrations/03: "Typing indicators are viewable by room members"
TypingIndicatorsAreViewableByRoomMembers(uid, t) ==
  t.room_id \in {rm.room_id : rm \in {y \in room_members : y.user_id = uid}}

\* migrations/03: "Users can update their own typing status" ... FOR INSERT
UsersCanUpdateTheirOwnTypingStatus(uid, t) ==
  /\ uid = t.user_id
  /\ t.room_id \in {rm.room_id : rm \in {y \in room_members : y.user_id = uid}}

TypingIndicatorsSelect(uid, t) ==
  \/ UsersCanSeeTypingInPublicRooms(uid, t)
  \/ UsersCanSeeTypingInTheirPrivateRooms(uid, t)

TypingIndicatorsSelectMigrations(uid, t) == TypingIndicatorsAreViewableByRoomMembers(uid, t)
TypingIndicatorsInsertMigrations(uid, t) == UsersCanUpdateTheirOwnTypingStatus(uid, t)

\* The policies of typing_indicators, by command.  The table has SELECT and
\* INSERT policies only: UPDATE and DELETE pass no row.
TypingIndicatorsInsert(uid, t) == UsersCanUpdateTheirTypingStatus(uid, t)
TypingIndicatorsUpdate(uid, t) == FALSE
TypingIndicatorsDelete(uid, t) == FALSE

TypingConflict(t) ==
  \E x \in typing_indicators : x.room_id = t.room_id /\ x.user_id = t.user_id

InsertTypingIndicator(uid, user_id, room_id, is_typing) ==
  /\ LET t == [room_id |-> room_id, user_id |-> user_id, is_typing |-> is_typing]
     IN  typing_indicators' =
           IF /\ TypingIndicatorsInsert(uid, t)
              /\ RoomExists(room_id)          \* REFERENCES public.rooms(id)
              /\ ~TypingConflict(t)           \* UNIQUE(room_id, user_id)
           THEN typing_indicators \cup {t}
           ELSE typing_indicators
  /\ UNCHANGED <<rooms, room_members, messages, message_reads, message_log, read_log, dmVars, otherVars>>

\* UPDATE typing_indicators SET is_typing = ... : touches the rows the UPDATE
\* policies pass.
UpdateTypingIndicator(uid, t, is_typing) ==
  /\ t \in typing_indicators
  /\ typing_indicators' =
       IF TypingIndicatorsUpdate(uid, t)
       THEN (typing_indicators \ {t}) \cup {[t EXCEPT !.is_typing = is_typing]}
       ELSE typing_indicators
  /\ UNCHANGED <<rooms, room_members, messages, message_reads, message_log, read_log, dmVars, otherVars>>

\* DELETE FROM typing_indicators: removes the rows the DELETE policies pass.
DeleteTypingIndicator(uid, t) ==
  /\ t \in typing_indicators
  /\ typing_indicators' =
       IF TypingIndicatorsDelete(uid, t) THEN typing_indicators \ {t}
       ELSE typing_indicators
  /\ UNCHANGED <<rooms, room_members, messages, message_reads, message_log, read_log, dmVars, otherVars>>

\* INSERT ... ON CONFLICT (room_id, user_id) DO UPDATE (supabase upsert): the
\* INSERT policies check the proposed row; on conflict the UPDATE policies
\* must pass the existing row and the new one.
UpsertTypingIndicator(uid, user_id, room_id, is_typing) ==
  /\ LET t == [room_id |-> room_id, user_id |-> user_id, is_typing |-> is_typing]
         old == {x \in typing_indicators : x.room_id = room_id /\ x.user_id = user_id}
     IN  typing_indicators' =
           IF ~(TypingIndicatorsInsert(uid, t) /\ RoomExists(room_id))
           THEN typing_indicators
           ELSE IF old = {}
           THEN typing_indicators \cup {t}
           ELSE IF \A x \in old : TypingIndicatorsUpdate(uid, x) /\ TypingIndicatorsUpdate(uid, t)
           THEN (typing_indicators \ old) \cup {t}
           ELSE typing_indicators
  /\ UNCHANGED <<rooms, room_members, messages, message_reads, message_log, read_log, dmVars, otherVars>>

\* Every statement user uid can issue on typing_indicators.
TypingStatements(uid) ==
  \/ \E u \in Users, r \in RoomIds, b \in BOOLEAN : InsertTypingIndicator(uid, u, r, b)
  \/ \E t \in typing_indicators, b \in BOOLEAN : UpdateTypingIndicator(uid, t, b)
  \/ \E t \in typing_indicators : DeleteTypingIndicator(uid, t)
  \/ \E u \in Users, r \in RoomIds, b \in BOOLEAN : UpsertTypingIndicator(uid, u, r, b)

\* -------------------------------------------------------- direct messaging
\* Every client request runs in a transaction of its own.  NOW() and the
\* column default now() are the start time of that transaction; a statement
\* reads the rows committed before it runs, and what the request writes is
\* committed when it ends.
Idle == [pc |-> "idle", start |-> 0, user1_id |-> NULL, user2_id |-> NULL, found |-> NULL]

Begin(s) ==
  /\ txn[s].pc = "idle"
  /\ txn' = [txn EXCEPT ![s] = [Idle EXCEPT !.pc = "active", !.start = now]]
  /\ UNCHANGED <<direct_conversations, direct_participants, direct_messages, now,
                 conversation_log, returned, dm_log, roomVars, otherVars>>

Tick ==
  /\ now < MaxTime
  /\ now' = now + 1
  /\ UNCHANGED <<direct_conversations, direct_participants, direct_messages, txn,
                 conversation_log, returned, dm_log, roomVars, otherVars>>

Participants(conversation_id) ==
  {p \in direct_participants : p.conversation_id = conversation_id}

IsParticipant(uid, conversation_id) ==
  \E p \in direct_participants : p.conversation_id = conversation_id /\ p.user_id = uid

\* The lookup with user1_id tested in both EXISTS (p2.user_id = user1_id).
ExistingConversations_SameUserTwice(user1_id, user2_id) ==
  {c.id : c \in {c \in direct_conversations :
      /\ \E p1 \in direct_participants : p1.conversation_id = c.id /\ p1.user_id = user1_id
      /\ \E p2 \in direct_participants : p2.conversation_id = c.id /\ p2.user_id = user1_id
      /\ Cardinality({p \in direct_participants : p.conversation_id = c.id}) = 2}}

\* find_or_create_conversation, the SELECT ... INTO existing_conversation_id:
\* the conversations that hold a row of user1_id, a row of user2_id and two
\* participant rows in all.
ExistingConversations(user1_id, user2_id) ==
  {c.id : c \in {c \in direct_conversations :
      /\ \E p1 \in direct_participants : p1.conversation_id = c.id /\ p1.user_id = user1_id
      /\ \E p2 \in direct_participants : p2.conversation_id = c.id /\ p2.user_id = user2_id
      /\ Cardinality(Participants(c.id)) = 2}}

\* LIMIT 1 with no ORDER BY: any one of the matching rows, NULL when none.
SelectExisting(user1_id, user2_id) ==
  IF ExistingConversations(user1_id, user2_id) = {} THEN {NULL}
  ELSE ExistingConversations(user1_id, user2_id)

\* find_or_create_conversation, from IF existing_conversation_id IS NOT NULL
\* to the end of the function: t is NOW(), existing the outcome of the SELECT,
\* result what the call returns (NULL: it raised and was rolled back).
ReturnOrCreate(user1_id, user2_id, existing, t, result) ==
  LET new_conversation_id ==
        FreshId(ConversationIds, {c.id : c \in direct_conversations})
  IN  IF existing # NULL
      THEN /\ result = existing
           /\ UNCHANGED <<direct_conversations, direct_participants, conversation_log>>
      ELSE IF user1_id = user2_id
      THEN \* the two VALUES rows collide on UNIQUE(conversation_id, user_id):
           \* the call fails and its INSERTs are rolled back
           /\ result = NULL
           /\ UNCHANGED <<direct_conversations, direct_participants, conversation_log>>
      ELSE /\ Cardinality(direct_conversations) < MaxConversations
           /\ direct_conversations' = direct_conversations \cup
                {[id |-> new_conversation_id, updated_at |-> t]}
           /\ direct_participants' = direct_participants \cup
                {[conversation_id |-> new_conversation_id, user_id |-> user1_id],
                 [conversation_id |-> new_conversation_id, user_id |-> user2_id]}
           /\ conversation_log' = conversation_log \cup
                {[id |-> new_conversation_id, users |-> {user1_id, user2_id}]}
           /\ result = new_conversation_id

\* A call that no other request overlaps: the lookup and the inserts see and
\* change the committed rows in one step.
find_or_create_conversation(user1_id, user2_id) ==
  /\ \E existing \in SelectExisting(user1_id, user2_id), result \in ConversationIds \cup {NULL} :
        ReturnOrCreate(user1_id, user2_id, existing, now, result)
  /\ UNCHANGED <<direct_messages, now, txn, returned, dm_log, roomVars, otherVars>>

\* The same call as the request of session s, other requests running between
\* its statements: first the SELECT ...
FindConversation(s, user1_id, user2_id) ==
  /\ txn[s].pc = "active"
  /\ \E found \in SelectExisting(user1_id, user2_id) :
       txn' = [txn EXCEPT ![s] = [@ EXCEPT !.pc = "looked", !.user1_id = user1_id,
                                           !.user2_id = user2_id, !.found = found]]
  /\ UNCHANGED <<direct_conversations, direct_participants, direct_messages, now,
                 conversation_log, returned, dm_log, roomVars, otherVars>>

\* ... then the rest of the function and the commit.
CreateConversation(s) ==
  /\ txn[s].pc = "looked"
  /\ txn' = [txn EXCEPT ![s] = Idle]
  /\ \E result \in ConversationIds \cup {NULL} :
        /\ ReturnOrCreate(txn[s].user1_id, txn[s].user2_id, txn[s].found, txn[s].start, result)
        /\ returned' = [returned EXCEPT ![s] = [user1_id |-> txn[s].user1_id,
                                                user2_id |-> txn[s].user2_id,
                                                existing |-> txn[s].found,
                                                result |-> result]]
  /\ UNCHANGED <<direct_messages, now, dm_log, roomVars, otherVars>>

\* CREATE POLICY "Users can insert themselves as participants"
UsersCanInsertThemselvesAsParticipants(uid, p) == p.user_id = uid

InsertDirectParticipant(uid, user_id, conversation_id) ==
  /\ LET p == [conversation_id |-> conversation_id, user_id |-> user_id]
     IN  direct_participants' =
           IF /\ UsersCanInsertThemselvesAsParticipants(uid, p)
              /\ \E c \in direct_conversations : c.id = conversation_id  \* REFERENCES
              /\ p \notin direct_participants   \* UNIQUE(conversation_id, user_id)
           THEN direct_participants \cup {p}
           ELSE direct_participants
  /\ UNCHANGED <<direct_conversations, direct_messages, now, txn,
                 conversation_log, returned, dm_log, roomVars, otherVars>>

\* CREATE POLICY "Users can view messages in their conversations"
UsersCanViewMessagesInTheirConversations(uid, dm) ==
  \E p \in direct_participants :
     p.conversation_id = dm.conversation_id /\ p.user_id = uid

\* The INSERT policy without the test of direct_participants.
UsersCanSendMessagesToTheirConversations_SenderOnly(uid, dm) == dm.sender_id = uid

\* CREATE POLICY "Users can send messages to their conversations"
UsersCanSendMessagesToTheirConversations(uid, dm) ==
  /\ dm.sender_id = uid
  /\ \E p \in direct_participants :
        p.conversation_id = dm.conversation_id /\ p.user_id = uid

\* The trigger's UPDATE without its WHERE clause.
update_conversation_timestamp_AllRows(new, t) ==
  {[c EXCEPT !.updated_at = t] : c \in direct_conversations}

\* update_conversation_timestamp(), fired by on_message_sent AFTER INSERT:
\* UPDATE direct_conversations SET updated_at = NOW() WHERE id = NEW.conversation_id
update_conversation_timestamp(new, t) ==
  {IF c.id = new.conversation_id THEN [c EXCEPT !.updated_at = t] ELSE c
     : c \in direct_conversations}

\* INSERT INTO direct_messages (conversation_id, sender_id, content) as the
\* statement of session s's request; id and created_at take their defaults.
InsertDirectMessage(s, uid, sender_id, conversation_id) ==
  /\ txn[s].pc = "active"
  /\ BagCardinality(direct_messages) < MaxDirectMessages
  /\ txn' = [txn EXCEPT ![s] = Idle]
  /\ LET dm == [conversation_id |-> conversation_id, sender_id |-> sender_id,
                created_at |-> txn[s].start, content |-> "sent"]
         accepted == /\ UsersCanSendMessagesToTheirConversations(uid, dm)
                     /\ \E c \in direct_conversations : c.id = conversation_id
     IN  IF accepted
         THEN /\ direct_messages' = direct_messages (+) SetToBag({dm})
              /\ direct_conversations' = update_conversation_timestamp(dm, txn[s].start)
              /\ dm_log' = dm_log \cup {[row |-> dm, caller |-> uid,
                                         was_participant |-> IsParticipant(uid, conversation_id)]}
         ELSE UNCHANGED <<direct_messages, direct_conversations, dm_log>>
  /\ UNCHANGED <<direct_participants, now, conversation_log, returned, roomVars, otherVars>>

\* The policies of direct_messages for UPDATE and for DELETE: none is created.
DirectMessagesUpdate(uid, dm) == FALSE
DirectMessagesDelete(uid, dm) == FALSE

\* UPDATE public.direct_messages SET content = ..., sender_id = ...,
\* conversation_id = ... on one row.
UpdateDirectMessage(uid, dm, sender_id, conversation_id, content) ==
  /\ BagIn(dm, direct_messages)
  /\ LET new == [conversation_id |-> conversation_id, sender_id |-> sender_id,
                 created_at |-> dm.created_at, content |-> content]
     IN  direct_messages' =
           IF /\ DirectMessagesUpdate(uid, dm) /\ DirectMessagesUpdate(uid, new)
              /\ \E c \in direct_conversations : c.id = conversation_id  \* REFERENCES
           THEN (direct_messages (-) SetToBag({dm})) (+) SetToBag({new})
           ELSE direct_messages
  /\ UNCHANGED <<direct_conversations, direct_participants, now, txn, conversation_log,
                 returned, dm_log, roomVars, otherVars>>

\* DELETE FROM public.direct_messages on one row.
DeleteDirectMessage(uid, dm) ==
  /\ BagIn(dm, direct_messages)
  /\ direct_messages' = IF DirectMessagesDelete(uid, dm)
                        THEN direct_messages (-) SetToBag({dm})
                        ELSE direct_messages
  /\ UNCHANGED <<direct_conversations, direct_participants, now, txn, conversation_log,
                 returned, dm_log, roomVars, otherVars>>

\* ---------------------------------------------------------------- profiles
\* CREATE POLICY "Public profiles are viewable by everyone" ... USING (true)
PublicProfilesAreViewableByEveryone(uid, p) == TRUE

\* CREATE POLICY "Users can insert their own profile" ... WITH CHECK (auth.uid() = id)
UsersCanInsertTheirOwnProfile(uid, p) == uid = p.id

\* CREATE POLICY "Users can update their own profile"
\*   USING (auth.uid() = id) WITH CHECK (auth.uid() = id)
UsersCanUpdateTheirOwnProfile(uid, p) == uid = p.id

\* username TEXT UNIQUE: NULLs do not conflict.
UsernameTaken(username, others) ==
  username # NULL /\ \E p \in others : p.username = username

\* handle_new_user(), fired by on_auth_user_created AFTER INSERT ON auth.users:
\* INSERT INTO public.profiles (id, username, avatar_url) VALUES (new.id, new.email, ...)
\* as SECURITY DEFINER.  The rows it inserts: none when the INSERT raises.
handle_new_user(new) ==
  LET p == [id |-> new.id, username |-> new.email]
  IN  IF (\E q \in profiles : q.id = p.id) \/ UsernameTaken(p.username, profiles)
      THEN {}
      ELSE {p}

\* A signup: INSERT INTO auth.users and the trigger, in one transaction; an
\* exception in the trigger aborts the signup.
SignUp(id, email) ==
  /\ \A u \in auth_users : u.id # id
  /\ LET new == [id |-> id, email |-> email]
         inserted == handle_new_user(new)
     IN  IF inserted = {}
         THEN UNCHANGED <<auth_users, profiles>>
         ELSE /\ auth_users' = auth_users \cup {new}
              /\ profiles' = profiles \cup inserted
  /\ UNCHANGED notAuthVars

InsertProfile(uid, id, username) ==
  /\ \E u \in auth_users : u.id = uid
  /\ LET p == [id |-> id, username |-> username]
     IN  profiles' =
           IF /\ UsersCanInsertTheirOwnProfile(uid, p)
              /\ \E u \in auth_users : u.id = id        \* REFERENCES auth.users(id)
              /\ \A q \in profiles : q.id # id          \* PRIMARY KEY
              /\ ~UsernameTaken(username, profiles)     \* UNIQUE
           THEN profiles \cup {p}
           ELSE profiles
  /\ UNCHANGED <<auth_users, notAuthVars>>

UpdateProfile(uid, p, id, username) ==
  /\ \E u \in auth_users : u.id = uid
  /\ p \in profiles
  /\ LET new == [id |-> id, username |-> username]
     IN  profiles' =
           IF /\ UsersCanUpdateTheirOwnProfile(uid, p)
              /\ UsersCanUpdateTheirOwnProfile(uid, new)
              /\ \E u \in auth_users : u.id = id
              /\ \A q \in profiles \ {p} : q.id # id
              /\ ~UsernameTaken(username, profiles \ {p})
           THEN (profiles \ {p}) \cup {new}
           ELSE profiles
  /\ UNCHANGED <<auth_users, notAuthVars>>

\* DELETE FROM profiles: the table has no DELETE policy.
DeleteProfile(uid, p) ==
  /\ \E u \in auth_users : u.id = uid
  /\ p \in profiles
  /\ UNCHANGED vars

\* ------------------------------------------------- expansion of policies
\* The policies reset_and_rebuild_fixed.sql creates: table, name, command, and
\* the tables its USING / WITH CHECK expression reads in subqueries.
Policy(table, name, cmd, reads) ==
  [table |-> table, name |-> name, cmd |-> cmd, reads |-> reads]

RebuildPolicies ==
  { Policy("profiles", "Public profiles are viewable by everyone", "SELECT", {}),
    Policy("profiles", "Users can insert their own profile", "INSERT", {}),
    Policy("profiles", "Users can update their own profile", "UPDATE", {}),
    Policy("rooms", "Public rooms are viewable by everyone", "SELECT", {}),
    Policy("rooms", "Users can view private rooms they are members of", "SELECT", {"room_members"}),
    Policy("rooms", "Users can insert rooms", "INSERT", {}),
    Policy("rooms", "Users can update their own rooms", "UPDATE", {}),
    Policy("room_members", "Users can view their own room memberships", "SELECT", {}),
    Policy("room_members", "Users can view members of public rooms", "SELECT", {"rooms"}),
    Policy("room_members", "Users can view members of their private rooms", "SELECT", {"room_members"}),
    Policy("room_members", "Users can join rooms", "INSERT", {}),
    Policy("room_members", "Users can leave rooms", "DELETE", {}),
    Policy("messages", "Users can view messages in public rooms", "SELECT", {"rooms"}),
    Policy("messages", "Users can view messages in their private rooms", "SELECT", {"room_members"}),
    Policy("messages", "Users can send messages to their rooms", "INSERT", {"rooms", "room_members"}),
    Policy("message_reads", "Users can view read receipts for public room messages", "SELECT",
           {"messages", "rooms"}),
    Policy("message_reads", "Users can view read receipts for their private room messages", "SELECT",
           {"messages", "room_members"}),
    Policy("message_reads", "Users can insert their own message reads", "INSERT",
           {"messages", "room_members", "rooms"}),
    Policy("typing_indicators", "Users can see typing in public rooms", "SELECT", {"rooms"}),
    Policy("typing_indicators", "Users can see typing in their private rooms", "SELECT", {"room_members"}),
    Policy("typing_indicators", "Users can update their typing status", "INSERT", {"rooms", "room_members"}),
    Policy("direct_conversations", "Users can view conversations they are in", "SELECT",
           {"direct_participants"}),
    Policy("direct_participants", "Users can view participants in their conversations", "SELECT",
           {"direct_participants"}),
    Policy("direct_participants", "Users can insert themselves as participants", "INSERT", {}),
    Policy("direct_messages", "Users can view messages in their conversations", "SELECT",
           {"direct_participants"}),
    Policy("direct_messages", "Users can send messages to their conversations", "INSERT",
           {"direct_participants"}) }

Tables == {p.table : p \in RebuildPolicies}
Commands == {"SELECT", "INSERT", "UPDATE", "DELETE"}

PoliciesFor(table, cmd) == {p \in RebuildPolicies : p.table = table /\ p.cmd = cmd}

ActiveTables == {active[i].table : i \in DOMAIN active}

\* A client statement cmd on table arrives: the rewriter adds the table to its
\* active list and expands one of the table's policies for the command.
Query(table, cmd) ==
  /\ active = << >>
  /\ \E p \in PoliciesFor(table, cmd) :
        active' = << [table |-> table, policy |-> p] >>
  /\ recursion' = FALSE
  /\ UNCHANGED notRewriteVars

\* The policy on top of the list reads table t in a subquery: the SELECT
\* policies of t apply to that subquery.  A table that is already on the list
\* raises "infinite recursion detected in policy for relation" and the
\* statement is aborted.
Descend(t) ==
  /\ active # << >>
  /\ t \in active[Len(active)].policy.reads
  /\ IF t \in ActiveTables
     THEN /\ recursion' = TRUE
          /\ active' = << >>
     ELSE /\ \E q \in PoliciesFor(t, "SELECT") :
                active' = Append(active, [table |-> t, policy |-> q])
          /\ UNCHANGED recursion
  /\ UNCHANGED notRewriteVars

\* The subquery on top of the list is done.
Return ==
  /\ active # << >>
  /\ active' = SubSeq(active, 1, Len(active) - 1)
  /\ UNCHANGED <<recursion, notRewriteVars>>

\* ------------------------------------------------- utils/error-handler.ts
\* JavaScript values.  A string is a sequence of tokens; the token "i"
\* followed by "r" stands for the text 'infinite recursion', "x" and "d" for
\* any other text.  A property of an object is Absent, null, a number or a
\* string.
Tokens == {"i", "r", "x"}
Strings == UNION {[1..n -> Tokens] : n \in 0..MaxLen}

Str(s) == [t |-> "string", s |-> s]
Num == [t |-> "number", s |-> << >>]
Nul == [t |-> "null", s |-> << >>]
Absent == [t |-> "absent", s |-> << >>]

InfiniteRecursion == <<"i", "r">>

PgCodes == {"42P01", "23505", "23503", "42501", "28000", "22P02", "54001", "42P17"}

\* The values handleDatabaseError is called with: undefined, null, a string,
\* a number, a function carrying properties, or an object.
ErrorValues ==
  [type : {"undefined", "null", "string", "number"},
   code : {Absent}, message : {Absent}, details : {Absent}]
  \cup
  [type : {"object", "function"},
   code : {Absent, Nul, Num} \cup {Str(<<c>>) : c \in PgCodes},
   message : {Absent, Nul, Num} \cup {Str(m) : m \in Strings},
   details : {Absent, Nul, Str(<< >>), Str(<<"d">>)}]

\* String.prototype.includes: s contains part at some position.
\* includes() testing position 0 only.
Includes_PrefixOnly(s, part) ==
  Len(s) >= Len(part) /\ SubSeq(s, 1, Len(part)) = part

RECURSIVE Includes(_, _)
Includes(s, part) ==
  IF Len(s) < Len(part) THEN FALSE
  ELSE IF SubSeq(s, 1, Len(part)) = part THEN TRUE
  ELSE Includes(Tail(s), part)

\* A value in a condition: null, undefined and '' are falsy.
Truthy(v) == v.t = "number" \/ (v.t = "string" /\ v.s # << >>)

\* 'p' in error
In(v) == v.t # "absent"

handleDatabaseError(e) ==
  IF e.type = "object"                       \* typeof error === 'object' && error !== null
  THEN IF In(e.code) /\ In(e.message) /\ e.message.t = "string"
       THEN CASE e.code = Str(<<"42P01">>) ->
                   <<"The database table does not exist. Please run the SQL setup scripts.">>
              [] e.code = Str(<<"23505">>) ->
                   <<"A record with this information already exists.">>
              [] e.code = Str(<<"23503">>) ->
                   <<"This operation references a record that does not exist.">>
              [] e.code = Str(<<"42501">>) ->
                   <<"You do not have permission to perform this operation.">>
              [] e.code = Str(<<"28000">>) ->
                   <<"Authentication failed. Please log in again.">>
              [] e.code = Str(<<"22P02">>) ->
                   <<"Invalid UUID or data format.">>
              [] e.code = Str(<<"54001">>) ->
                   IF Includes(e.message.s, InfiniteRecursion)
                   THEN <<"Infinite recursion detected in policy. Run the fix-recursive-policy.sql script.">>
                   ELSE <<"The database query is too complex.">>
              [] OTHER ->
                   <<"Database error: ">> \o e.message.s
                     \o (IF Truthy(e.details) THEN <<" (">> \o e.details.s \o <<")">> ELSE << >>)
       ELSE IF In(e.message) /\ e.message.t = "string"
       THEN IF Includes(e.message.s, InfiniteRecursion)
            THEN <<"Infinite recursion detected in policy. Run the fix-recursive-policy.sql script to fix this issue.">>
            ELSE e.message.s
       ELSE <<"An unknown error occurred. Please try again.">>
  ELSE <<"An unknown error occurred. Please try again.">>

Pending == <<"pending">>

Undefined == [type |-> "undefined", code |-> Absent, message |-> Absent, details |-> Absent]

\* A caller's catch block receives a value ...
Catch(e) ==
  /\ error = Undefined /\ returnValue = Pending
  /\ error' = e
  /\ UNCHANGED <<returnValue, notHandlerVars>>

\* ... passes it to handleDatabaseError ...
Handle ==
  /\ returnValue = Pending
  /\ returnValue' = handleDatabaseError(error)
  /\ UNCHANGED <<error, notHandlerVars>>

\* ... and is done with it.
Done ==
  /\ returnValue # Pending
  /\ error' = Undefined
  /\ returnValue' = Pending
  /\ UNCHANGED notHandlerVars

\* ------------------------------------------------------ migration files
\* The statements of the migration files that read or write the catalog of
\* tables and policies, in the order of each file.
CreateTableIfNotExists(t) == [op |-> "CREATE TABLE IF NOT EXISTS", table |-> t, name |-> ""]
CreatePolicy(t, name) == [op |-> "CREATE POLICY", table |-> t, name |-> name]
DropPolicyIfExists(t, name) == [op |-> "DROP POLICY IF EXISTS", table |-> t, name |-> name]

Migration01 ==
  << CreateTableIfNotExists("messages"),
     CreatePolicy("messages", "Users can view all messages"),
     CreatePolicy("messages", "Users can insert their own messages"),
     CreateTableIfNotExists("profiles"),
     CreatePolicy("profiles", "Public profiles are viewable by everyone"),
     CreatePolicy("profiles", "Users can insert their own profile"),
     CreatePolicy("profiles", "Users can update their own profile") >>

Migration02 ==
  << CreateTableIfNotExists("rooms"),
     CreateTableIfNotExists("room_members"),
     CreatePolicy("rooms", "Public rooms are viewable by everyone"),
     CreatePolicy("rooms", "Private rooms are viewable only by members"),
     CreatePolicy("rooms", "Users can update their own rooms"),
     CreatePolicy("room_members", "Users can view their own room memberships"),
     CreatePolicy("room_members", "Users can see other members in their rooms"),
     CreatePolicy("room_members", "Users can join rooms"),
     DropPolicyIfExists("messages", "Users can view all messages"),
     CreatePolicy("messages", "Users can view messages in their rooms"),
     DropPolicyIfExists("messages", "Users can insert their own messages"),
     CreatePolicy("messages", "Users can insert messages in their rooms") >>

Migration03 ==
  << CreateTableIfNotExists("message_reads"),
     CreatePolicy("message_reads", "Message reads are viewable by room members"),
     CreatePolicy("message_reads", "Users can insert their own message reads"),
     CreateTableIfNotExists("typing_indicators"),
     CreatePolicy("typing_indicators", "Typing indicators are viewable by room members"),
     CreatePolicy("typing_indicators", "Users can update their own typing status") >>

Migration04 ==
  << CreateTableIfNotExists("direct_conversations"),
     CreateTableIfNotExists("direct_participants"),
     CreatePolicy("direct_conversations", "Users can view conversations they are in"),
     CreatePolicy("direct_participants", "Users can view participants in their conversations"),
     CreatePolicy("direct_participants", "Users can insert themselves as participants"),
     CreateTableIfNotExists("direct_messages"),
     CreatePolicy("direct_messages", "Users can view messages in their conversations"),
     CreatePolicy("direct_messages", "Users can send messages to their conversations") >>

Migration05 ==
  << DropPolicyIfExists("room_members", "Room members are viewable by other members"),
     DropPolicyIfExists("room_members", "Users can view other members in their rooms"),
     DropPolicyIfExists("room_members", "Users can view rooms they are members of"),
     CreatePolicy("room_members", "Users can view their own room memberships"),
     CreatePolicy("room_members", "Users can see other members in their rooms") >>

MigrationFiles == <<Migration01, Migration02, Migration03, Migration04, Migration05>>

NotRunning == [file |-> 0, pc |-> 0]

\* Whether PostgreSQL raises an error for the statement: a policy is created
\* on a table that does not exist or under a name the table already has; a
\* policy is dropped from a table that does not exist.
Raises(stmt) ==
  CASE stmt.op = "CREATE TABLE IF NOT EXISTS" -> FALSE
    [] stmt.op = "CREATE POLICY" ->
         \/ stmt.table \notin pg_tables
         \/ [tablename |-> stmt.table, policyname |-> stmt.name] \in pg_policies
    [] stmt.op = "DROP POLICY IF EXISTS" -> stmt.table \notin pg_tables

\* \i 'migrations/0n_....sql', or the file pasted into the SQL editor.
StartMigration(n) ==
  /\ running = NotRunning
  /\ Len(applied) < MaxRuns
  /\ running' = [file |-> n, pc |-> 1]
  /\ UNCHANGED <<pg_tables, pg_policies, applied, failures, notCatalogVars>>

\* The next statement of the file.  A statement that raises changes nothing
\* and the file goes on with the next one.
ExecuteStatement ==
  /\ running # NotRunning
  /\ LET file == MigrationFiles[running.file]
         stmt == file[running.pc]
         policy == [tablename |-> stmt.table, policyname |-> stmt.name]
     IN  /\ IF Raises(stmt)
            THEN /\ failures' = failures \cup
                       {[run |-> Len(applied) + 1, file |-> running.file, pc |-> running.pc]}
                 /\ UNCHANGED <<pg_tables, pg_policies>>
            ELSE /\ UNCHANGED failures
                 /\ pg_tables' = IF stmt.op = "CREATE TABLE IF NOT EXISTS"
                                 THEN pg_tables \cup {stmt.table} ELSE pg_tables
                 /\ pg_policies' =
                      CASE stmt.op = "CREATE POLICY" -> pg_policies \cup {policy}
                        [] stmt.op = "DROP POLICY IF EXISTS" -> pg_policies \ {policy}
                        [] OTHER -> pg_policies
         /\ IF running.pc < Len(file)
            THEN /\ running' = [running EXCEPT !.pc = @ + 1]
                 /\ UNCHANGED applied
            ELSE /\ running' = NotRunning
                 /\ applied' = Append(applied, running.file)
  /\ UNCHANGED notCatalogVars

\* ------------------------------------------------- components/ChatInterface
\* One ChatInterface and the messages table of the room it shows.  A row is
\* [id, created_at, mounted]: mounted records whether the row was committed
\* while the component showed the room.

\* created_at DEFAULT now(): the start time of the inserting transaction.
BeginInsert ==
  /\ Cardinality(inserting) + Len(room_messages) < MaxMessages
  /\ inserting' = inserting \cup
       {[id |-> Cardinality(inserting) + Len(room_messages) + 1, created_at |-> time]}
  /\ UNCHANGED <<time, room_messages, currentRoom, request, channel, payloads,
                 ci_messages, notChatVars>>

\* The commit of an INSERT; a subscribed channel is sent the new row.
CommitInsert(tx) ==
  /\ tx \in inserting
  /\ inserting' = inserting \ {tx}
  /\ LET row == [id |-> tx.id, created_at |-> tx.created_at, mounted |-> currentRoom # NULL]
     IN  /\ room_messages' = Append(room_messages, row)
         /\ payloads' = IF channel = "subscribed" THEN Append(payloads, row) ELSE payloads
  /\ UNCHANGED <<time, currentRoom, request, channel, ci_messages, notChatVars>>

ClockTick ==
  /\ time < MaxClock
  /\ time' = time + 1
  /\ UNCHANGED <<inserting, room_messages, currentRoom, request, channel, payloads,
                 ci_messages, notChatVars>>

\* setCurrentRoom(room) and the two effects on [currentRoom]: fetchMessages()
\* sends its query, and the channel is created and asked to subscribe.
SetCurrentRoom ==
  /\ currentRoom = NULL
  /\ currentRoom' = 1
  /\ request' = [state |-> "sent", data |-> << >>]
  /\ channel' = "joining"
  /\ UNCHANGED <<time, inserting, room_messages, payloads, ci_messages, notChatVars>>

\* The realtime server registers the subscription.
Subscribed ==
  /\ channel = "joining"
  /\ channel' = "subscribed"
  /\ UNCHANGED <<time, inserting, room_messages, currentRoom, request, payloads,
                 ci_messages, notChatVars>>

\* .order('created_at', { ascending: true }): the committed rows in an order
\* of non-decreasing created_at; rows of equal created_at come in any order.
Ordered(rows) ==
  \A i \in DOMAIN rows : \A j \in DOMAIN rows : i < j => rows[i].created_at <= rows[j].created_at

SelectOrderByCreatedAt ==
  LET n == Len(room_messages)
      table == {room_messages[i] : i \in 1..n}
  IN  {rows \in [1..n -> table] : {rows[i] : i \in 1..n} = table /\ Ordered(rows)}

\* The database runs the query of fetchMessages.
FetchRespond ==
  /\ request.state = "sent"
  /\ \E rows \in SelectOrderByCreatedAt : request' = [state |-> "responded", data |-> rows]
  /\ UNCHANGED <<time, inserting, room_messages, currentRoom, channel, payloads,
                 ci_messages, notChatVars>>

\* if (error) throw error: the list is left as it is.
FetchError ==
  /\ request.state = "sent"
  /\ request' = [state |-> "failed", data |-> << >>]
  /\ UNCHANGED <<time, inserting, room_messages, currentRoom, channel, payloads,
                 ci_messages, notChatVars>>

\* MessageSchema.parse(message), or the defaults: id and created_at of a row
\* of the table are non-empty strings and are kept by both.
Validated(row) == [id |-> row.id, created_at |-> row.created_at, mounted |-> row.mounted]

\* setMessages(validatedMessages)
FetchApply ==
  /\ request.state = "responded"
  /\ ci_messages' = [i \in DOMAIN request.data |-> Validated(request.data[i])]
  /\ request' = [state |-> "applied", data |-> << >>]
  /\ UNCHANGED <<time, inserting, room_messages, currentRoom, channel, payloads, notChatVars>>

\* (payload) => setMessages((current) => [...current, newMessage])
OnInsert ==
  /\ payloads # << >>
  /\ ci_messages' = Append(ci_messages, Head(payloads))
  /\ payloads' = Tail(payloads)
  /\ UNCHANGED <<time, inserting, room_messages, currentRoom, request, channel, notChatVars>>

\* ------------------------------------- components/DirectMessage: startConversation
\* The text of the input field: a sequence over " " (white space), "u" (the
\* 36 characters of a UUID) and "x" (any other text).
Chars == {" ", "u", "x"}
Inputs == UNION {[1..n -> Chars] : n \in 0..MaxInput}

\* String.prototype.trim(): white space is removed from both ends.
RECURSIVE TrimStart(_)
TrimStart(s) == IF s # << >> /\ Head(s) = " " THEN TrimStart(Tail(s)) ELSE s

RECURSIVE TrimEnd(_)
TrimEnd(s) ==
  IF s # << >> /\ s[Len(s)] = " " THEN TrimEnd(SubSeq(s, 1, Len(s) - 1)) ELSE s

Trim(s) == TrimEnd(TrimStart(s))

\* The validation accepting every string.
UuidParses_Any(s) == TRUE

\* z.string().uuid().parse(s) does not throw: s is a UUID and nothing else.
UuidParses(s) == s = <<"u">>

NoCall == [pc |-> "idle", newContactId |-> << >>, outcome |-> "none"]

\* The responses of the database to the handler's requests.
Found == "found"
NotFound == "not found"
Failed == "error"

\* setNewContactId(e.target.value): the field is in the dialog; a key adds a
\* character to the text or takes the last one away.
TypeContactId(s) ==
  /\ showNewConversationDialog
  /\ \/ \E c \in Chars : s = Append(newContactId, c)
     \/ newContactId # << >> /\ s = SubSeq(newContactId, 1, Len(newContactId) - 1)
  /\ newContactId' = s
  /\ UNCHANGED <<conversations, selectedConversation, showNewConversationDialog,
                 dm_error, call, rpc_log, notStartVars>>

\* setShowNewConversationDialog(true | false)
SetShowNewConversationDialog(b) ==
  /\ showNewConversationDialog' = b
  /\ UNCHANGED <<newContactId, conversations, selectedConversation, dm_error, call,
                 rpc_log, notStartVars>>

\* A click on a conversation of the list.
SelectConversation(c) ==
  /\ c \in {conversations[i] : i \in DOMAIN conversations}
  /\ selectedConversation' = c
  /\ UNCHANGED <<newContactId, conversations, showNewConversationDialog, dm_error, call,
                 rpc_log, notStartVars>>

\* startConversation up to its first await: the test of the trimmed input,
\* setError(null), the validation, and the query on profiles.  The handler
\* keeps the newContactId of the render it was created in.
StartConversation ==
  /\ call.pc = "idle"
  /\ showNewConversationDialog
  /\ IF Trim(newContactId) = << >>
     THEN /\ call' = [NoCall EXCEPT !.outcome = "empty"]
          /\ UNCHANGED dm_error
     ELSE IF ~UuidParses(Trim(newContactId))
     THEN /\ call' = [NoCall EXCEPT !.outcome = "invalid"]
          /\ dm_error' = "Invalid user ID format. Please enter a valid UUID."
     ELSE /\ call' = [pc |-> "profiles", newContactId |-> newContactId, outcome |-> "none"]
          /\ dm_error' = NULL
  /\ rpc_log' = {}
  /\ UNCHANGED <<newContactId, conversations, selectedConversation,
                 showNewConversationDialog, notStartVars>>

\* The answer to the query on profiles; when a row was found, the call of
\* find_or_create_conversation.
UserCheck(response) ==
  /\ call.pc = "profiles"
  /\ response = Found => Len(conversations) < MaxList
  /\ IF response # Found
     THEN /\ call' = [NoCall EXCEPT !.outcome = "notfound"]
          /\ dm_error' = "User not found. Please check the ID and try again."
          /\ UNCHANGED rpc_log
     ELSE /\ call' = [call EXCEPT !.pc = "rpc"]
          /\ rpc_log' = rpc_log \cup {[input |-> call.newContactId,
                                       user2_id |-> Trim(call.newContactId)]}
          /\ UNCHANGED dm_error
  /\ UNCHANGED <<newContactId, conversations, selectedConversation,
                 showNewConversationDialog, notStartVars>>

\* The answer of find_or_create_conversation: an error, no id, or an id; with
\* an id, the query on direct_conversations.
RpcReturns(response, data) ==
  /\ call.pc = "rpc"
  /\ IF response = Failed
     THEN /\ call' = [NoCall EXCEPT !.outcome = "failed"]
          /\ dm_error' = "createErrorWithHelp(error)"
     ELSE IF data = NULL
     THEN /\ call' = [NoCall EXCEPT !.outcome = "failed"]
          /\ dm_error' = "Failed to create conversation - no conversation ID returned"
     ELSE /\ call' = [pc |-> "direct_conversations", newContactId |-> call.newContactId,
                      outcome |-> "none", data |-> data]
          /\ UNCHANGED dm_error
  /\ UNCHANGED <<newContactId, conversations, selectedConversation,
                 showNewConversationDialog, rpc_log, notStartVars>>

\* The answer to the query on direct_conversations; without an error, the
\* query for the other user's username.
ConversationReturns(response) ==
  /\ call.pc = "direct_conversations"
  /\ IF response = Failed
     THEN /\ call' = [NoCall EXCEPT !.outcome = "failed"]
          /\ dm_error' = "createErrorWithHelp(error)"
     ELSE /\ call' = [call EXCEPT !.pc = "username"]
          /\ UNCHANGED dm_error
  /\ UNCHANGED <<newContactId, conversations, selectedConversation,
                 showNewConversationDialog, rpc_log, notStartVars>>

\* The answer to the query for the username, whatever it is: the conversation
\* is put first in the list and selected, the field is emptied and the dialog
\* closed.
UsernameReturns ==
  /\ call.pc = "username"
  /\ conversations' = <<call.data>> \o conversations
  /\ selectedConversation' = call.data
  /\ newContactId' = << >>
  /\ showNewConversationDialog' = FALSE
  /\ call' = [NoCall EXCEPT !.outcome = "started"]
  /\ UNCHANGED <<dm_error, rpc_log, notStartVars>>

\* ------------------------------------------------------ app/page.tsx, ChatApp
\* The browser windows that share the session cookie.
Windows == {1, 2}

\* A window that has not requested "/".
NoPage == [path |-> "", user |-> NULL, activeTab |-> "", mounted |-> {}]

\* ChatApp rendering both components.
ChatApp_BothMounted(activeTab) == {"ChatInterface", "DirectMessage"}

\* The components ChatApp renders below its tab bar:
\* activeTab === 'rooms' ? <ChatInterface user={user} /> : <DirectMessage user={user} />
ChatApp(activeTab) ==
  IF activeTab = "rooms" THEN {"ChatInterface"} ELSE {"DirectMessage"}

\* Home(): supabase.auth.getUser(); without a user redirect('/login'), which
\* ends the function; with one, the page with <ChatApp user={user} />, whose
\* activeTab starts as useState('rooms').
Home(w) ==
  /\ LET user == session
     IN  page' = [page EXCEPT ![w] =
                    IF user = NULL
                    THEN [NoPage EXCEPT !.path = "/login"]
                    ELSE [path |-> "/", user |-> user, activeTab |-> "rooms",
                          mounted |-> ChatApp("rooms")]]
  /\ UNCHANGED <<session, notPageVars>>

\* onClick={() => setActiveTab(tab)} and the render that follows.
SetActiveTab(w, tab) ==
  /\ page[w].path = "/"
  /\ page' = [page EXCEPT ![w] = [@ EXCEPT !.activeTab = tab, !.mounted = ChatApp(tab)]]
  /\ UNCHANGED <<session, notPageVars>>

\* A sign-in on the login page sets the session cookie.
SignIn(u) ==
  /\ session = NULL
  /\ session' = u
  /\ UNCHANGED <<page, notPageVars>>

\* <form action="/auth/signout" method="post">: the session ends and the
\* window that sent the form leaves the page.
SignOut(w) ==
  /\ page[w].path = "/"
  /\ session' = NULL
  /\ page' = [page EXCEPT ![w] = NoPage]
  /\ UNCHANGED notPageVars

\* --------------------------------------------------------- specifications
InitRooms ==
  /\ rooms = {}
  /\ room_members = {}
  /\ messages = {}
  /\ message_reads = [p \in MessageIds \X Users |-> 0]
  /\ typing_indicators = {}
  /\ message_log = {}
  /\ read_log = {}

InitDirect ==
  /\ direct_conversations = {}
  /\ direct_participants = {}
  /\ direct_messages = EmptyBag
  /\ now = 0
  /\ txn = [s \in Sessions |-> Idle]
  /\ conversation_log = {}
  /\ returned = [s \in Sessions |-> [user1_id |-> NULL, user2_id |-> NULL, existing |-> NULL, result |-> NULL]]
  /\ dm_log = {}

InitAuth ==
  /\ auth_users = {}
  /\ profiles = {}

InitRewrite ==
  /\ active = << >>
  /\ recursion = FALSE

InitHandler ==
  /\ error = Undefined
  /\ returnValue = Pending

\* A new project: no table in schema public.
InitCatalog ==
  /\ pg_tables = {}
  /\ pg_policies = {}
  /\ running = NotRunning
  /\ applied = << >>
  /\ failures = {}

\* The component before a room is chosen; the room has no message.
InitChat ==
  /\ time = 0
  /\ inserting = {}
  /\ room_messages = << >>
  /\ currentRoom = NULL
  /\ request = [state |-> "idle", data |-> << >>]
  /\ channel = "none"
  /\ payloads = << >>
  /\ ci_messages = << >>

InitStart ==
  /\ newContactId = << >>
  /\ conversations = << >>
  /\ selectedConversation = NULL
  /\ showNewConversationDialog = FALSE
  /\ dm_error = NULL
  /\ call = NoCall
  /\ rpc_log = {}

InitPage ==
  /\ session = NULL
  /\ page = [w \in Windows |-> NoPage]

InitOther ==
  InitAuth /\ InitRewrite /\ InitHandler /\ InitCatalog /\ InitChat /\ InitStart /\ InitPage

Init == InitRooms /\ InitDirect /\ InitOther

\* reset_and_rebuild_fixed.sql run on the database: every table of schema
\* public is dropped and created again, empty; auth.users is not touched and
\* on_auth_user_created fires only for rows inserted from then on.
ResetAndRebuild ==
  /\ profiles' = {}
  /\ rooms' = {} /\ room_members' = {} /\ messages' = {}
  /\ message_reads' = [p \in MessageIds \X Users |-> 0]
  /\ typing_indicators' = {}
  /\ message_log' = {} /\ read_log' = {}
  /\ direct_conversations' = {} /\ direct_participants' = {}
  /\ direct_messages' = EmptyBag
  /\ conversation_log' = {} /\ dm_log' = {}
  /\ running = NotRunning
  /\ pg_tables' = Tables
  /\ pg_policies' = {[tablename |-> p.table, policyname |-> p.name] : p \in RebuildPolicies}
  /\ applied' = << >> /\ failures' = {}
  /\ UNCHANGED <<auth_users, now, txn, returned, rewriteVars, handlerVars, running, chatVars, startVars, pageVars>>

\* Signups and the statements on profiles.
NextProfiles ==
  \/ \E id \in Users, email \in Emails \cup {NULL} : SignUp(id, email)
  \/ \E uid \in Users, id \in Users, username \in Emails \cup {NULL} :
        InsertProfile(uid, id, username)
  \/ \E uid \in Users, p \in profiles, id \in Users, username \in Emails \cup {NULL} :
        UpdateProfile(uid, p, id, username)
  \/ \E uid \in Users, p \in profiles : DeleteProfile(uid, p)
  \/ ResetAndRebuild

SpecProfiles == Init /\ [][NextProfiles]_vars

\* The rewriter expanding the policies of the rebuilt schema for any statement.
NextRewrite ==
  \/ \E t \in Tables, cmd \in Commands : Query(t, cmd)
  \/ \E t \in Tables : Descend(t)
  \/ Return

SpecRewrite == Init /\ [][NextRewrite]_vars

\* The migration files, run one after another in any order.
NextMigrations ==
  \/ \E n \in DOMAIN MigrationFiles : StartMigration(n)
  \/ ExecuteStatement

SpecMigrations == Init /\ [][NextMigrations]_vars

NextChat ==
  \/ BeginInsert
  \/ \E tx \in inserting : CommitInsert(tx)
  \/ ClockTick
  \/ SetCurrentRoom
  \/ Subscribed
  \/ FetchRespond
  \/ FetchError
  \/ FetchApply
  \/ OnInsert

SpecChat == Init /\ [][NextChat]_vars

\* The query is answered, its answer is applied, the subscription is
\* registered and every event sent is delivered.
SpecChatLive ==
  /\ SpecChat
  /\ WF_vars(FetchRespond) /\ WF_vars(FetchApply)
  /\ WF_vars(Subscribed) /\ WF_vars(OnInsert)

NextStart ==
  \/ \E s \in Inputs : TypeContactId(s)
  \/ \E b \in BOOLEAN : SetShowNewConversationDialog(b)
  \/ \E c \in 1..MaxList : SelectConversation(c)
  \/ StartConversation
  \/ \E response \in {Found, NotFound, Failed} : UserCheck(response)
  \/ \E response \in {Found, Failed}, data \in (1..MaxList) \cup {NULL} :
        RpcReturns(response, data)
  \/ \E response \in {Found, Failed} : ConversationReturns(response)
  \/ UsernameReturns

SpecStart == Init /\ [][NextStart]_vars

NextHome ==
  \/ \E w \in Windows : Home(w)
  \/ \E w \in Windows, tab \in {"rooms", "direct"} : SetActiveTab(w, tab)
  \/ \E u \in Users : SignIn(u)
  \/ \E w \in Windows : SignOut(w)

SpecHome == Init /\ [][NextHome]_vars

NextHandler ==
  \/ \E e \in ErrorValues : Catch(e)
  \/ Handle
  \/ Done

SpecHandler == Init /\ [][NextHandler]_vars

RoomStatements ==
  \/ \E uid \in Users, c \in Users, p \in BOOLEAN : InsertRoom(uid, c, p)
  \/ \E uid \in Users, r \in rooms, c \in Users, p \in BOOLEAN : UpdateRoom(uid, r, c, p)
  \/ \E uid \in Users, u \in Users, r \in RoomIds : InsertRoomMember(uid, u, r)
  \/ \E uid \in Users, rm \in room_members : DeleteRoomMember(uid, rm)

NextRooms ==
  \/ RoomStatements
  \/ \E uid \in Users, u \in Users, r \in RoomIds \cup {NULL} : InsertMessage(uid, u, r)

SpecRooms == Init /\ [][NextRooms]_vars

NextReads ==
  \/ NextRooms
  \/ \E uid \in Users, u \in Users, m \in MessageIds : InsertMessageRead(uid, u, m)

SpecReads == Init /\ [][NextReads]_vars

NextTyping ==
  \/ RoomStatements
  \/ \E uid \in Users : TypingStatements(uid)

SpecTyping == Init /\ [][NextTyping]_vars

\* find_or_create_conversation called by one session: calls do not overlap.
Rpc(s) ==
  \/ Begin(s)
  \/ \E a \in Users, b \in Users : FindConversation(s, a, b)
  \/ CreateConversation(s)

NextSequential == Rpc(1)

SpecSequential == Init /\ [][NextSequential]_vars

NextConcurrent == \E s \in Sessions : Rpc(s)

SpecConcurrent == Init /\ [][NextConcurrent]_vars

\* The statements of direct messaging, the clock standing still.
NextParticipants ==
  \/ \E a \in Users, b \in Users : find_or_create_conversation(a, b)
  \/ \E s \in Sessions : Begin(s)
  \/ \E uid \in Users, u \in Users, c \in ConversationIds : InsertDirectParticipant(uid, u, c)
  \/ \E s \in Sessions, uid \in Users, u \in Users, c \in ConversationIds :
        InsertDirectMessage(s, uid, u, c)

SpecParticipants == Init /\ [][NextParticipants]_vars

NextDirect ==
  \/ NextParticipants
  \/ Tick

SpecDirect == Init /\ [][NextDirect]_vars

\* An UPDATE that sets one column to another value.
OneColumn(old, new) == Cardinality({i \in DOMAIN old : old[i] # new[i]}) = 1

\* Every statement a client can send on the tables of rooms and of direct
\* messaging, the requests of direct messaging made by one session.
NextAppendOnly ==
  \/ RoomStatements
  \/ \E uid \in Users, u \in Users, r \in RoomIds \cup {NULL} : InsertMessage(uid, u, r)
  \/ \E uid \in Users, m \in messages, u \in Users, r \in RoomIds \cup {NULL}, c \in Contents :
        /\ OneColumn(<<m.user_id, m.room_id, m.content>>, <<u, r, c>>)
        /\ UpdateMessage(uid, m, u, r, c)
  \/ \E uid \in Users, m \in messages : DeleteMessage(uid, m)
  \/ \E a \in Users, b \in Users : find_or_create_conversation(a, b)
  \/ Begin(1)
  \/ \E uid \in Users, u \in Users, c \in ConversationIds : InsertDirectMessage(1, uid, u, c)
  \/ \E uid \in Users, dm \in BagToSet(direct_messages), u \in Users,
        c \in ConversationIds, t \in Contents :
        /\ OneColumn(<<dm.sender_id, dm.conversation_id, dm.content>>, <<u, c, t>>)
        /\ UpdateDirectMessage(uid, dm, u, c, t)
  \/ \E uid \in Users, dm \in BagToSet(direct_messages) : DeleteDirectMessage(uid, dm)

SpecAppendOnly == Init /\ [][NextAppendOnly]_vars

\* =================================================================== claims
ParticipantUsers(conversation_id) == {p.user_id : p \in Participants(conversation_id)}

\* The conversations whose participants are exactly the users a and b.
ConversationsOf(a, b) ==
  {c \in direct_conversations : ParticipantUsers(c.id) = {a, b}}

\* The conversations that have both a and b among their participants.
ConversationsWith(a, b) ==
  {c \in direct_conversations : IsParticipant(a, c.id) /\ IsParticipant(b, c.id)}

\* C1: when calls of find_or_create_conversation do not overlap and nothing
\* else writes direct_participants, every pair of distinct users has at most
\* one conversation with exactly those two participants, and every call for
\* the pair, in either argument order, returns the one conversation that was
\* created for it.
C1_OneConversationPerPair ==
  /\ \A a \in Users : \A b \in Users \ {a} : Cardinality(ConversationsOf(a, b)) <= 1
  /\ \A x \in conversation_log, y \in conversation_log : x.users = y.users => x.id = y.id
  /\ \A s \in Sessions :
       LET r == returned[s]
       IN  (r.result # NULL /\ r.user1_id # r.user2_id) =>
             /\ ConversationsOf(r.user1_id, r.user2_id) = {c \in direct_conversations : c.id = r.result}
             /\ [id |-> r.result, users |-> {r.user1_id, r.user2_id}] \in conversation_log

\* A call found the conversation that an earlier call, with the arguments in
\* the other order or the same, had created, while a second pair has its own.
C1_Witness ==
  /\ Cardinality(direct_conversations) = 2
  /\ returned[1].result # NULL
  /\ returned[1].existing = returned[1].result
  /\ returned[1].user1_id > returned[1].user2_id

\* C2: once every overlapping call of find_or_create_conversation has
\* committed, at most one conversation has both users of a pair as participants.
C2_AtMostOneAfterOverlap ==
  (\A s \in Sessions : txn[s].pc = "idle") =>
     \A a \in Users : \A b \in Users \ {a} : Cardinality(ConversationsWith(a, b)) <= 1

PublicOrMember(uid, room_id) == IsPublic(room_id) \/ IsMember(uid, room_id)

C5_SenderIsParticipant ==
  /\ \A l \in dm_log : l.caller = l.row.sender_id /\ l.was_participant
  /\ BagToSet(direct_messages) = {l.row : l \in dm_log}
  /\ \A dm \in BagToSet(direct_messages) : IsParticipant(dm.sender_id, dm.conversation_id)

\* Two conversations exist and the one message was sent by a participant of its
\* conversation who is not a participant of the other.
C5_Witness ==
  \E dm \in BagToSet(direct_messages), c \in direct_conversations :
     /\ c.id # dm.conversation_id
     /\ IsParticipant(dm.sender_id, dm.conversation_id)
     /\ ~IsParticipant(dm.sender_id, c.id)

C7_ReceiptVisibleIffMessageVisible ==
  \A uid \in Users, m \in messages, u \in Users :
     LET mr == [message_id |-> m.id, user_id |-> u]
     IN  ReadExists(mr) => (MessageReadsSelect(uid, mr) <=> MessagesSelect(uid, m))

\* A receipt for a message of a private room: a member sees it, a non-member
\* does not.
C7_Witness ==
  \E m \in messages, u \in Users, v \in Users, w \in Users :
     LET mr == [message_id |-> m.id, user_id |-> u]
     IN  /\ ReadExists(mr) /\ ~IsPublic(m.room_id)
         /\ MessageReadsSelect(v, mr)
         /\ ~MessageReadsSelect(w, mr)

\* Every message_reads row was inserted by the user it names while that user
\* could read the message, and no (message, user) pair has two rows.
OwnReceiptsAtMostOnce ==
  /\ \A l \in read_log : l.caller = l.user_id /\ l.could_view
  /\ \A p \in DOMAIN message_reads :
        /\ message_reads[p] <= 1
        /\ message_reads[p] = 1 =>
             \E l \in read_log : l.message_id = p[1] /\ l.user_id = p[2]

\* C8: every message_reads row was inserted by the user it names while that
\* user could read the message; there is never more than one row for a
\* (message, user) pair, and an insert for a pair that has a row is rejected
\* and leaves the table unchanged.
C8_OwnReceiptsOncePerMessage ==
  /\ OwnReceiptsAtMostOnce
  /\ \A uid \in Users, u \in Users, m \in MessageIds :
        ReadRows(m, u) > 0 =>
           ~ENABLED (/\ InsertMessageRead(uid, u, m)
                     /\ (message_reads' # message_reads \/ read_log' # read_log))

\* Two users have marked the one message as read.
C8_Witness ==
  \E u \in Users, v \in Users :
     /\ u # v
     /\ \E m \in messages : ReadRows(m.id, u) = 1 /\ ReadRows(m.id, v) = 1

\* C9: a user who has a typing_indicators row can, by some statement the
\* policies permit, change its is_typing value or replace the row.
C9_CanChangeOwnTypingRow ==
  \A t \in typing_indicators :
     ENABLED (TypingStatements(t.user_id) /\ t \notin typing_indicators')

\* C10 (as stated): each accepted INSERT into direct_messages sets updated_at
\* of its conversation to the time of that insert and changes no other
\* conversation, so updated_at never decreases and is never earlier than the
\* created_at of a message of the conversation.
C10_UpdatedAtNeverDecreases ==
  /\ [][\A c \in direct_conversations : \A d \in direct_conversations' :
          d.id = c.id => d.updated_at >= c.updated_at]_vars
  /\ [](\A c \in direct_conversations : \A dm \in BagToSet(direct_messages) :
          dm.conversation_id = c.id => c.updated_at >= dm.created_at)

\* C10 (amended): each accepted INSERT into direct_messages sets updated_at of
\* its conversation to NOW(), the start time of the inserting transaction and
\* the created_at of the new row, and changes no other conversation.
C10_InsertStampsItsConversation ==
  [][\A s \in Sessions, uid \in Users, u \in Users, c \in ConversationIds :
       (direct_messages' # direct_messages /\ InsertDirectMessage(s, uid, u, c)) =>
          /\ {d.id : d \in direct_conversations'} = {d.id : d \in direct_conversations}
          /\ \A d \in direct_conversations' :
                IF d.id = c
                THEN /\ d.updated_at = txn[s].start
                     /\ \E dm \in BagToSet(direct_messages') :
                           /\ dm.conversation_id = c /\ dm.sender_id = u
                           /\ dm.created_at = d.updated_at
                ELSE d \in direct_conversations]_vars

\* Two conversations whose updated_at differ, one of them holding two messages
\* inserted by transactions that started at different times.
C10_Witness ==
  \E c \in direct_conversations, d \in direct_conversations :
     /\ c.id # d.id /\ c.updated_at # d.updated_at
     /\ Cardinality({dm.created_at : dm \in {x \in BagToSet(direct_messages) : x.conversation_id = c.id}}) = 2

\* C11: every user in auth.users has exactly one profiles row, with id equal
\* to the user's id, from the moment the signup completes.
C11_EveryUserHasOneProfile ==
  \A u \in auth_users : Cardinality({p \in profiles : p.id = u.id}) = 1

\* C12: an UPDATE of a rooms row is accepted only when the caller is the row's
\* created_by and the updated row still has created_by equal to the caller, so
\* a room's created_by never changes and no user modifies a room created by
\* someone else.
C12_OnlyCreatorsUpdateRooms ==
  [][/\ \A r \in rooms : \E n \in rooms' : n.id = r.id /\ n.created_by = r.created_by
     /\ \A uid \in Users, r \in rooms, created_by \in Users, is_private \in BOOLEAN :
          (rooms' # rooms /\ UpdateRoom(uid, r, created_by, is_private))
             => (uid = r.created_by /\ created_by = uid)]_vars

\* A room that was public when a message was written into it is private now:
\* an UPDATE of the room has been accepted.
C12_Witness ==
  \E r \in rooms, m \in messages, l \in message_log :
     m.room_id = r.id /\ l.id = m.id /\ ~l.was_private /\ r.is_private

\* C13: in the schema built by reset_and_rebuild_fixed.sql, following the
\* tables read by the policies never returns to a table whose policies are
\* already being expanded (in particular no policy reads its own table), so no
\* statement raises the recursion error.
C13_NoRecursivePolicy == ~recursion

\* C14: for every table, command, caller and database state, the schema built
\* by migrations 01 to 04 permits the command on a row exactly when the schema
\* built by reset_and_rebuild_fixed.sql permits it.
C14_SameAuthorization ==
  \A uid \in Users :
     /\ \A r \in rooms :
          /\ RoomsSelectMigrations(uid, r) <=> RoomsSelect(uid, r)
          /\ \A u \in Users, m \in MessageIds :
               LET msg == [id |-> m, user_id |-> u, room_id |-> r.id]
                   mr == [message_id |-> m, user_id |-> u]
                   t == [room_id |-> r.id, user_id |-> u, is_typing |-> TRUE]
               IN  /\ MessagesSelectMigrations(uid, msg) <=> MessagesSelect(uid, msg)
                   /\ UsersCanInsertMessagesInTheirRooms(uid, msg)
                        <=> UsersCanSendMessagesToTheirRooms(uid, msg)
                   /\ MessageReadsSelectMigrations(uid, mr) <=> MessageReadsSelect(uid, mr)
                   /\ UsersCanInsertTheirOwnMessageReadsMigrations(uid, mr)
                        <=> UsersCanInsertTheirOwnMessageReads(uid, mr)
                   /\ TypingIndicatorsSelectMigrations(uid, t) <=> TypingIndicatorsSelect(uid, t)
                   /\ TypingIndicatorsInsertMigrations(uid, t) <=> TypingIndicatorsInsert(uid, t)
          /\ RoomsInsertMigrations(uid, r) <=> RoomsInsert(uid, r)
     /\ \A rm \in room_members :
          RoomMembersDeleteMigrations(uid, rm) <=> RoomMembersDelete(uid, rm)

\* The fixed texts of the code-keyed cases.
FixedText(code) ==
  CASE code = "42P01" -> "The database table does not exist. Please run the SQL setup scripts."
    [] code = "23505" -> "A record with this information already exists."
    [] code = "23503" -> "This operation references a record that does not exist."
    [] code = "42501" -> "You do not have permission to perform this operation."
    [] code = "28000" -> "Authentication failed. Please log in again."
    [] code = "22P02" -> "Invalid UUID or data format."

MentionsRecursion(m) ==
  \E k \in 1..Len(m) : k < Len(m) /\ m[k] = "i" /\ m[k + 1] = "r"

\* C15: handleDatabaseError returns, for every value: for an object with a
\* code property and a string message, the fixed text of codes 42P01, 23505,
\* 23503, 42501, 28000, 22P02, for 54001 the recursion text when the message
\* contains 'infinite recursion' and else the too-complex text, and for any
\* other code 'Database error: <message>' plus the details if any; for an
\* object with a string message and no code, the message, or the recursion
\* text when it contains 'infinite recursion'; for anything else
\* 'An unknown error occurred. Please try again.'.
C15_HandleDatabaseErrorIsTotal ==
  returnValue # Pending =>
     LET e == error
         isObject == e.type = "object"
         hasMessage == e.message.t = "string"
         hasCode == e.code.t # "absent"
     IN  /\ (isObject /\ hasCode /\ hasMessage) =>
              /\ \A c \in {"42P01", "23505", "23503", "42501", "28000", "22P02"} :
                    e.code = Str(<<c>>) => returnValue = <<FixedText(c)>>
              /\ (e.code = Str(<<"54001">>) /\ MentionsRecursion(e.message.s)) =>
                    returnValue = <<"Infinite recursion detected in policy. Run the fix-recursive-policy.sql script.">>
              /\ (e.code = Str(<<"54001">>) /\ ~MentionsRecursion(e.message.s)) =>
                    returnValue = <<"The database query is too complex.">>
              /\ (\A c \in PgCodes \ {"42P17"} : e.code # Str(<<c>>)) =>
                    /\ SubSeq(returnValue, 1, 1 + Len(e.message.s)) = <<"Database error: ">> \o e.message.s
                    /\ Len(returnValue) = 1 + Len(e.message.s)
                          + (IF e.details \in {Absent, Nul, Str(<< >>)} THEN 0 ELSE 2 + Len(e.details.s))
                    /\ e.details = Str(<<"d">>) =>
                          SubSeq(returnValue, 2 + Len(e.message.s), Len(returnValue)) = <<" (", "d", ")">>
         /\ (isObject /\ ~hasCode /\ hasMessage) =>
              returnValue = IF MentionsRecursion(e.message.s)
                            THEN <<"Infinite recursion detected in policy. Run the fix-recursive-policy.sql script to fix this issue.">>
                            ELSE e.message.s
         /\ ~(isObject /\ hasMessage) =>
              returnValue = <<"An unknown error occurred. Please try again.">>

\* The call returned for an error with code 54001 whose message has
\* 'infinite recursion' after other text.
C15_Witness ==
  /\ returnValue = <<"Infinite recursion detected in policy. Run the fix-recursive-policy.sql script.">>
  /\ error.message = Str(<<"x", "i", "r">>)

\* C16: when migration 05 is applied after migrations 01 to 04 were applied in
\* order, every DROP POLICY and CREATE POLICY statement of 05 succeeds, and
\* afterwards room_members has the SELECT policies "Users can view their own
\* room memberships" and "Users can see other members in their rooms".
C16_Migration05Applies ==
  (Len(applied) >= 4 /\ SubSeq(applied, 1, 4) = <<1, 2, 3, 4>>) =>
     /\ \A f \in failures : ~(f.run = 5 /\ f.file = 5)
     /\ (Len(applied) >= 5 /\ applied[5] = 5) =>
          {[tablename |-> "room_members", policyname |-> "Users can view their own room memberships"],
           [tablename |-> "room_members", policyname |-> "Users can see other members in their rooms"]}
             \subseteq pg_policies

\* C17: an INSERT into room_members by a user for a private room is accepted
\* only if that user created the room or can already see it: a user who
\* neither created a private room nor can SELECT it cannot add their own
\* membership row, and so cannot come to read its messages by own writes.
C17_JoinPrivateRoomOnlyIfCreatorOrVisible ==
  \A uid \in Users, r \in rooms :
     (r.is_private /\ r.created_by # uid /\ ~RoomsSelect(uid, r)) =>
        ~ENABLED (InsertRoomMember(uid, uid, r.id) /\ room_members' # room_members)

\* C18: whatever the interleaving of the initial fetch with realtime INSERT
\* events, the displayed list never holds the same message id twice and is in
\* ascending order of created_at.
C18_NoDuplicateAndAscending ==
  /\ \A i \in DOMAIN ci_messages : \A j \in DOMAIN ci_messages :
        i # j => ci_messages[i].id # ci_messages[j].id
  /\ Ordered(ci_messages)

\* C19: every message inserted into the current room while the component is
\* mounted eventually appears in the displayed list, when the fetch completes
\* and the realtime feed delivers every INSERT committed after the
\* subscription became active.
Displayed(id) == \E i \in DOMAIN ci_messages : ci_messages[i].id = id

CommittedWhileMounted(id) ==
  \E i \in DOMAIN room_messages : room_messages[i].id = id /\ room_messages[i].mounted

C19_EveryInsertEventuallyDisplayed ==
  \/ <>(request.state = "failed")
  \/ \A id \in 1..MaxMessages : CommittedWhileMounted(id) ~> Displayed(id)

\* C20: startConversation calls find_or_create_conversation only after the
\* trimmed input was validated as a UUID and a profiles row was found; when
\* the input is empty, is not a UUID, or no profile is found, no call is made
\* and the conversations list, the selected conversation and the dialog state
\* are left as they were, with an error message set in the last two cases.
C20_RpcOnlyAfterValidationAndLookup ==
  [][ /\ rpc_log' \ rpc_log # {} =>
           /\ call.pc = "profiles" /\ call'.pc = "rpc"
           /\ \A l \in rpc_log' \ rpc_log :
                 /\ l.user2_id = <<"u">>
                 /\ \E i \in 0..Len(l.input) : \E j \in 0..Len(l.input) :
                       /\ Len(l.input) = i + 1 + j
                       /\ \A n \in 1..Len(l.input) : n # i + 1 => l.input[n] = " "
      /\ (call' # call /\ call'.outcome \in {"empty", "invalid", "notfound"}) =>
           /\ rpc_log' \subseteq rpc_log
           /\ UNCHANGED <<conversations, selectedConversation, showNewConversationDialog>>
           /\ call'.outcome = "invalid" =>
                dm_error' = "Invalid user ID format. Please enter a valid UUID."
           /\ call'.outcome = "notfound" =>
                dm_error' = "User not found. Please check the ID and try again."
           /\ call'.outcome = "empty" => \A n \in DOMAIN newContactId : newContactId[n] = " "
           /\ call'.outcome = "invalid" =>
                \/ \E n \in DOMAIN newContactId : newContactId[n] = "x"
                \/ Len(SelectSeq(newContactId, LAMBDA c : c = "u")) > 1 ]_vars

\* With a conversation in the list and selected, a call is made for a UUID
\* typed with white space around it, after an earlier startConversation was
\* refused.
C20_Witness ==
  /\ \E l \in rpc_log : l.input # l.user2_id
  /\ conversations # << >> /\ selectedConversation # NULL /\ showNewConversationDialog
  /\ call.pc = "rpc"

\* C21: room messages and direct messages are append-only for clients: no
\* statement a caller can send changes or removes an existing messages or
\* direct_messages row, so every row stays as it was written, with its
\* content, its sender and its room or conversation.
C21_MessagesAreAppendOnly ==
  [][ /\ \A m \in messages : m \in messages'
      /\ \A dm \in BagToSet(direct_messages) :
            CopiesIn(dm, direct_messages') >= CopiesIn(dm, direct_messages) ]_vars

\* A message of a room and a direct message exist, each with a user other
\* than its sender who can read it.
C21_Witness ==
  /\ \E m \in messages : \E uid \in Users \ {m.user_id} : MessagesSelect(uid, m)
  /\ \E dm \in BagToSet(direct_messages) : \E uid \in Users \ {dm.sender_id} :
        UsersCanViewMessagesInTheirConversations(uid, dm)

\* C22: Home renders the chat application only for an authenticated user:
\* with no user in the session the request is redirected to /login and ChatApp
\* is not rendered; where ChatApp is rendered, exactly one of ChatInterface
\* (tab 'rooms', the initial tab) and DirectMessage (tab 'direct') is mounted.
C22_ChatAppOnlyForUserAndOneTabMounted ==
  /\ \A w \in Windows :
       /\ page[w].path = "/" =>
            /\ page[w].user \in Users
            /\ Cardinality(page[w].mounted) = 1
            /\ page[w].activeTab = "rooms" => page[w].mounted = {"ChatInterface"}
            /\ page[w].activeTab = "direct" => page[w].mounted = {"DirectMessage"}
       /\ page[w].path # "/" => page[w].mounted = {}
       /\ session = NULL =>
            ~ENABLED (Home(w) /\ page'[w].path # "/login")
       /\ ~ENABLED (Home(w) /\ page'[w].path = "/" /\ page'[w].activeTab # "rooms")

\* One window shows the direct messages of a signed-in user; the other was
\* redirected to /login after the session had ended.
C22_Witness ==
  /\ page[1].path = "/" /\ page[1].mounted = {"DirectMessage"}
  /\ page[2].path = "/login"

=============================================================================
